---------------------------- MODULE Spec2Model ----------------------------
(***************************************************************************)
(* The Netflix dashboard script (src/app.py) as a state machine.  One      *)
(* script run is: load_data, the sidebar widgets and the filter, the five  *)
(* tabs in order, the footer.  Every widget interaction starts a new run.  *)
(*                                                                         *)
(* Text cells (country, duration) are sequences of one-character strings;  *)
(* type and rating are atomic strings.  A missing text cell is the         *)
(* sequence MissingCell, a missing atomic cell is NA, a missing number is  *)
(* NaN.  The text columns are taken to be read as strings (object dtype),  *)
(* and digits are the ASCII digits.                                        *)
(***************************************************************************)
EXTENDS Integers, Sequences, FiniteSets, TLC

VARIABLES csv, df, pc, types, year_range, df_filtered, pressed, ui

vars == <<csv, df, pc, types, year_range, df_filtered, pressed, ui>>

\* ------------------------------------------------------------------ bounds
\* Longest free duration string of the duration family.
MaxLen == 3
\* Most free rows of the type/year and the rating families.
MaxRows == 3
\* Number of rows (one main country each) of the country family.
NumCountries == 11

\* --------------------------------------------------------- missing values
NA == "<NA>"
NaN == -1
MissingCell == <<NA>>
NaT == <<"NaT">>

IsMissing(cell) == cell = MissingCell

\* ------------------------------------------------------- generic helpers
Range(s) == {s[i] : i \in 1..Len(s)}

RECURSIVE SumSeq(_)
SumSeq(s) == IF s = <<>> THEN 0 ELSE Head(s) + SumSeq(Tail(s))

\* A frame built row by row, as a sequence (the concatenation makes the
\* rows values, computed once).
Frame(rows) == rows \o <<>>

Min(S) == CHOOSE x \in S : \A y \in S : x <= y
Max(S) == CHOOSE x \in S : \A y \in S : x >= y

\* ------------------------------------------------------------- load_data
Digits == {"0", "1", "2", "3", "4", "5", "6", "7", "8", "9"}

DigitVal(c) ==
    CASE c = "0" -> 0 [] c = "1" -> 1 [] c = "2" -> 2 [] c = "3" -> 3
      [] c = "4" -> 4 [] c = "5" -> 5 [] c = "6" -> 6 [] c = "7" -> 7
      [] c = "8" -> 8 [] c = "9" -> 9

\* The leading characters of s that are digits (the greedy match of \d+
\* anchored at the start of s).
RECURSIVE DigitPrefix(_)
DigitPrefix(s) ==
    IF s = <<>> \/ Head(s) \notin Digits THEN <<>>
    ELSE <<Head(s)>> \o DigitPrefix(Tail(s))

\* The first match of \d+ in s, scanning from position i: the first maximal
\* digit run (a regular expression's leftmost greedy match).
RECURSIVE FirstDigitRunFrom(_, _)
FirstDigitRunFrom(s, i) ==
    IF i > Len(s) THEN <<>>
    ELSE IF s[i] \in Digits THEN DigitPrefix(SubSeq(s, i, Len(s)))
    ELSE FirstDigitRunFrom(s, i + 1)

\* StrExtract that matches at the start of the cell only (re.match).
StrExtract_Anchored(cell) ==
    IF IsMissing(cell) THEN MissingCell
    ELSE IF DigitPrefix(cell) = <<>> THEN MissingCell ELSE DigitPrefix(cell)

\* Series.str.extract(r'(\d+)')[0] on one cell: the captured group, or
\* missing when the cell is missing or nothing matches.
StrExtract(cell) ==
    IF IsMissing(cell) THEN MissingCell
    ELSE LET m == FirstDigitRunFrom(cell, 1)
         IN  IF m = <<>> THEN MissingCell ELSE m

\* The decimal value of a digit string.
RECURSIVE DecimalValue(_)
DecimalValue(s) ==
    IF s = <<>> THEN 0
    ELSE DecimalValue(SubSeq(s, 1, Len(s) - 1)) * 10 + DigitVal(s[Len(s)])

\* pd.to_numeric(..., errors='coerce') on one cell: its number, NaN for a
\* missing cell and for text that is not a number.
ToNumeric(cell) ==
    IF IsMissing(cell) THEN NaN
    ELSE IF cell # <<>> /\ \A i \in 1..Len(cell) : cell[i] \in Digits
         THEN DecimalValue(cell)
    ELSE NaN

\* pd.to_datetime(..., errors='coerce') on one cell.  A date cell is
\* <<day and month, year>>; anything else does not parse.
ToDatetime(cell) == IF Len(cell) = 2 THEN cell ELSE NaT

\* Series.dt.year on one timestamp.
DtYear(ts) == IF ts = NaT THEN NaN ELSE ts[2]

\* One row of the frame load_data returns: the csv row under its index
\* label, date_added parsed, year_added and duration_num derived.
LoadRow(raw, i) ==
    [idx |-> i, type |-> raw.type, rating |-> raw.rating,
     country |-> raw.country, duration |-> raw.duration,
     date_added |-> ToDatetime(raw.date_added),
     year_added |-> DtYear(ToDatetime(raw.date_added)),
     duration_num |-> ToNumeric(StrExtract(raw.duration))]

load_data(rows) == Frame([i \in 1..Len(rows) |-> LoadRow(rows[i], i)])


\* ------------------------------------------------- sidebar and the filter
DefaultLo == 2015
DefaultHi == 2020

\* df['type'].dropna().unique(): the options of the type multiselect.
TypeOptions(frame) == {frame[i].type : i \in 1..Len(frame)} \ {NA}

\* The non-null values of year_added: what Series.min() and max() range over.
YearsOf(frame) == {frame[i].year_added : i \in 1..Len(frame)} \ {NaN}

\* df['year_added'].min() and .max(): NaN when no year is known.
YearMin(frame) == IF YearsOf(frame) = {} THEN NaN ELSE Min(YearsOf(frame))
YearMax(frame) == IF YearsOf(frame) = {} THEN NaN ELSE Max(YearsOf(frame))

\* The (low, high) pairs the year slider can return between its two ends;
\* the stops are the default's ends and the years of the data.
SliderValues(lo, hi) ==
    LET stops == {y \in YearsOf(df) \cup {DefaultLo, DefaultHi} : lo <= y /\ y <= hi}
    IN  {p \in stops \X stops : p[1] <= p[2]}

\* Series.isin(values) on one cell.
IsIn(v, values) == v \in values

\* Between with the right end left out.
Between_OpenRight(y, left, right) == y # NaN /\ left <= y /\ y < right

\* Series.between(left, right) on one cell: both ends inclusive, and a
\* comparison with NaN is false.
Between(y, left, right) == y # NaN /\ left <= y /\ y <= right

\* One element of the boolean mask of line 73.
RowMask(r, ts, yr) == IsIn(r.type, ts) /\ Between(r.year_added, yr[1], yr[2])

\* FilterFrame with the mask of the loaded frame applied by position.
FilterFrame_MaskOfLoaded(frame, ts, yr) ==
    LET marked == Frame([i \in 1..Len(frame) |->
                            [row |-> frame[i], keep |-> RowMask(df[i], ts, yr)]])
        kept(m) == m.keep
        sel == SelectSeq(marked, kept)
    IN  Frame([i \in 1..Len(sel) |-> sel[i].row])

\* frame[mask of line 73]: the rows whose mask element is true, in order,
\* under their index labels.
FilterFrame(frame, ts, yr) ==
    LET keep(r) == RowMask(r, ts, yr) IN SelectSeq(frame, keep)

\* --------------------------------------------------------------- outputs
\* One thing a run did that the user (or a library) sees.
Ev(tab, kind, val) == [tab |-> tab, kind |-> kind, val |-> val]

Has(log, tab, kind) == \E i \in 1..Len(log) : log[i].tab = tab /\ log[i].kind = kind

Count(log, tab, kind) ==
    Cardinality({i \in 1..Len(log) : log[i].tab = tab /\ log[i].kind = kind})

\* ------------------------------------------------ gpt_summary, export_pdf
\* What openai.ChatCompletion.create answers: a text inside or outside
\* Latin-1, or an exception.
ApiOutcomes == {"text_latin1", "text_unicode", "raise"}

\* gpt_summary without its try/except: the API's exception propagates.
gpt_summary_Propagates(tab, outcome) ==
    [calls |-> <<Ev(tab, "api_call", outcome)>>,
     raised |-> (outcome = "raise"),
     ret |-> [kind |-> "summary", latin1 |-> (outcome = "text_latin1")]]

\* gpt_summary, called in tab `tab` (the prompt it builds from the tab's name
\* does not matter here): the one API call it makes, with how the call
\* ended, and what it returns.  The returned text is the API's answer, or
\* the placeholder of line 101, which starts with a warning sign and so is
\* outside Latin-1; it never raises.
gpt_summary(tab, outcome) ==
    [calls |-> <<Ev(tab, "api_call", outcome)>>,
     raised |-> FALSE,
     ret |-> IF outcome = "raise"
             THEN [kind |-> "placeholder", latin1 |-> FALSE]
             ELSE [kind |-> "summary", latin1 |-> (outcome = "text_latin1")]]

\* export_pdf: FPDF's core font Helvetica encodes Latin-1 only; a text
\* outside it raises.
export_pdf(content) == [raised |-> ~content.latin1]

\* The GPT Summary button of a tab and the block under it: what is
\* rendered, and whether the run is aborted by an exception.
GptButton(tab, click, outcome) ==
    IF ~click THEN [ev |-> <<Ev(tab, "button", FALSE)>>, abort |-> FALSE]
    ELSE LET g == gpt_summary(tab, outcome)
             pre == <<Ev(tab, "button", TRUE)>> \o g.calls
         IN  IF g.raised
             THEN [ev |-> pre \o <<Ev(tab, "error", "gpt_summary")>>, abort |-> TRUE]
             ELSE LET said == pre \o <<Ev(tab, "success", g.ret),
                                       Ev(tab, "export_pdf", g.ret)>>
                  IN  IF export_pdf(g.ret).raised
                      THEN [ev |-> said \o <<Ev(tab, "error", "export_pdf")>>,
                            abort |-> TRUE]
                      ELSE [ev |-> said \o <<Ev(tab, "pdf_link", g.ret)>>,
                            abort |-> FALSE]

\* A button returns True only in the run its click started, and one click
\* starts one run: at most one button is pressed per run.
Clicks == IF pressed = "none" THEN BOOLEAN ELSE {FALSE}

\* ---------------------------------------------------------- aggregations
\* Series.value_counts(): the count of every non-null value of a column.
ValueCounts(frame, col, null) ==
    LET keys == {frame[i][col] : i \in 1..Len(frame)} \ {null}
    IN  [k \in keys |-> Cardinality({i \in 1..Len(frame) : frame[i][col] = k})]

\* Series.idxmax() of a value_counts: a label of greatest count (the first
\* of them in the order value_counts leaves, which is not specified).
IdxMax(counts) ==
    {k \in DOMAIN counts : \A j \in DOMAIN counts : counts[k] >= counts[j]}

\* Rounding to the nearest integer, halves to even (numpy's round).
RoundHalfEven(num, den) ==
    LET q == num \div den
        r == num % den
    IN  IF 2 * r < den THEN q
        ELSE IF 2 * r > den THEN q + 1
        ELSE IF q % 2 = 0 THEN q ELSE q + 1

\* TypeShares without normalize=True: the counts themselves, times 100.
TypeShares_Counts(frame) ==
    LET c == ValueCounts(frame, "type", NA)
    IN  [k \in DOMAIN c |-> 100 * c[k]]

\* value_counts(normalize=True).round(2) * 100: every type's share of the
\* frame in percent, rounded to a whole percent.
TypeShares(frame) ==
    LET c == ValueCounts(frame, "type", NA)
        total == SumSeq([i \in 1..Len(frame) |-> IF frame[i].type = NA THEN 0 ELSE 1])
    IN  [k \in DOMAIN c |-> RoundHalfEven(100 * c[k], total)]

\* ------------------------------------------- the Durations tab's helpers
HeadRows == 10

\* The characters of country cells in code point order.
CharOrder ==
    <<" ", ",", "A", "B", "C", "D", "E", "F", "G", "H", "I", "J", "K", "L",
      "M", "N", "O", "P">>

CodePoint(c) == CHOOSE i \in 1..Len(CharOrder) : CharOrder[i] = c

\* String comparison: a < b.
RECURSIVE StrLess(_, _)
StrLess(a, b) ==
    IF b = <<>> THEN FALSE
    ELSE IF a = <<>> THEN TRUE
    ELSE IF Head(a) = Head(b) THEN StrLess(Tail(a), Tail(b))
    ELSE CodePoint(Head(a)) < CodePoint(Head(b))

\* str.split(',')[0]: the text before the first comma.
RECURSIVE FirstField(_)
FirstField(s) ==
    IF s = <<>> \/ Head(s) = "," THEN <<>>
    ELSE <<Head(s)>> \o FirstField(Tail(s))

RECURSIVE LStrip(_)
LStrip(s) == IF s # <<>> /\ Head(s) = " " THEN LStrip(Tail(s)) ELSE s

RECURSIVE RStrip(_)
RStrip(s) ==
    IF s # <<>> /\ s[Len(s)] = " " THEN RStrip(SubSeq(s, 1, Len(s) - 1)) ELSE s

\* str.strip()
Strip(s) == RStrip(LStrip(s))

\* Lines 164-170: the filtered movies with a duration and a country, each
\* with its main country, in a frame of their own.
MovieRows(frame) ==
    LET keep(r) == r.type = "Movie" /\ r.duration_num # NaN /\ ~IsMissing(r.country)
        sel == SelectSeq(frame, keep)
    IN  Frame([i \in 1..Len(sel) |->
            [idx |-> sel[i].idx, duration_num |-> sel[i].duration_num,
             main_country |-> Strip(FirstField(sel[i].country))]])

\* The keys of a groupby in sorted order.
RECURSIVE SortedKeys(_)
SortedKeys(S) ==
    IF S = {} THEN <<>>
    ELSE LET least == CHOOSE k \in S : \A j \in S \ {k} : StrLess(k, j)
         IN  <<least>> \o SortedKeys(S \ {least})

\* groupby('main_country')['duration_num'].mean().reset_index(): one row per
\* main country in key order; the mean is kept as sum and count.
GroupMeans(movies) ==
    LET keys == SortedKeys({movies[i].main_country : i \in 1..Len(movies)})
    IN  Frame([j \in 1..Len(keys) |->
            [main_country |-> keys[j],
             total |-> SumSeq([i \in 1..Len(movies) |->
                          IF movies[i].main_country = keys[j]
                          THEN movies[i].duration_num ELSE 0]),
             n |-> Cardinality({i \in 1..Len(movies) :
                                  movies[i].main_country = keys[j]})]])

\* a's mean >= b's mean
MeanGE(a, b) == a.total * b.n >= b.total * a.n

\* sort_values(by='duration_num', ascending=False).  The order of rows of
\* equal mean is the sort's choice: `first` keeps them in frame order, the
\* other outcome modelled reverses them.
RECURSIVE SortValuesDesc(_, _)
SortValuesDesc(s, first) ==
    IF s = <<>> THEN <<>>
    ELSE LET tops == {i \in 1..Len(s) : \A j \in 1..Len(s) : MeanGE(s[i], s[j])}
             k == IF first THEN Min(tops) ELSE Max(tops)
         IN  <<s[k]>> \o SortValuesDesc(SubSeq(s, 1, k - 1) \o SubSeq(s, k + 1, Len(s)), first)

\* DataFrame.head(n)
HeadN(s, n) == SubSeq(s, 1, IF Len(s) < n THEN Len(s) ELSE n)

\* AverageByCountry that cuts to ten rows before it sorts.
AverageByCountry_HeadFirst(movies, first) ==
    SortValuesDesc(HeadN(GroupMeans(movies), HeadRows), first)

\* Lines 175-181: df_avg.
AverageByCountry(movies, first) == HeadN(SortValuesDesc(GroupMeans(movies), first), HeadRows)

\* Line 195: the (year_added, type) groups of the filtered frame; groupby
\* drops the rows with a null key.
TrendGroups(frame) ==
    {<<frame[i].year_added, frame[i].type>> :
        i \in {j \in 1..Len(frame) : frame[j].year_added # NaN /\ frame[j].type # NA}}

\* ------------------------------------------------------------ the inputs
\* One row of the csv file.
Row(t, r, c, d, dur) ==
    [type |-> t, rating |-> r, country |-> c, date_added |-> d, duration |-> dur]

\* All sequences over S of length at most n.
SeqsUpTo(S, n) == UNION {[1..k -> S] : k \in 0..n}

Date(y) == <<"September 25", y>>

Minutes90 == <<"9", "0", " ", "m", "i", "n">>

\* Type and year family: up to MaxRows rows of any type (or none) added in
\* 2015, in 2020 or at no known date.
TypeYearRows ==
    {Row(t, "PG-13", <<"A">>, d, Minutes90) :
        t \in {"Movie", "TV Show", NA},
        d \in {Date(DefaultLo), Date(DefaultHi), MissingCell}}

TypeYearFiles == SeqsUpTo(TypeYearRows, MaxRows)

\* Type count family: up to MaxRows rows of three types, added in 2015 or
\* in 2020.
TypeCountRows ==
    {Row(t, "PG-13", <<"A">>, d, Minutes90) :
        t \in {"Movie", "TV Show", "Documentary"},
        d \in {Date(DefaultLo), Date(DefaultHi)}}

TypeCountFiles == SeqsUpTo(TypeCountRows, MaxRows)

\* Rating family: up to MaxRows movies of two ratings or none, added in
\* 2015 or in 2020.
RatingRows ==
    {Row("Movie", r, <<"A">>, d, Minutes90) :
        r \in {"PG-13", "TV-MA", NA}, d \in {Date(DefaultLo), Date(DefaultHi)}}

RatingFiles == SeqsUpTo(RatingRows, MaxRows)

\* Duration text family: one movie of 2015 whose duration is missing or any
\* text of at most MaxLen characters, and one movie of 2020.
DurationChars == {"0", "1", "9", " ", "m"}

DurationTexts == SeqsUpTo(DurationChars, MaxLen) \cup {MissingCell}

DurationTextFiles ==
    {<<Row("Movie", "PG-13", <<"A">>, Date(DefaultLo), d),
       Row("Movie", "PG-13", <<"B">>, Date(DefaultHi), Minutes90)>> :
        d \in DurationTexts}

\* Country family: NumCountries movies, one per country, the first added
\* in 2015 and the others in 2020, at most two of them long; and at most
\* one more row that shares a main country, is no movie, or lacks its
\* country or its duration.
Minutes(n) == n \o <<" ", "m", "i", "n">>

CountryRow(i, long) ==
    Row("Movie", "PG-13", <<CharOrder[i + 2]>>,
        IF i = 1 THEN Date(DefaultLo) ELSE Date(DefaultHi),
        IF i \in long THEN Minutes(<<"1", "2", "0">>) ELSE Minutes90)

ExtraRows ==
    {Row("Movie", "PG-13", <<"A", ",", " ", "B">>, Date(DefaultHi), Minutes(<<"3", "0">>)),
     Row("Movie", "PG-13", <<" ", "B", " ">>, Date(DefaultHi), Minutes(<<"1", "5", "0">>)),
     Row("TV Show", "TV-MA", <<"C">>, Date(DefaultHi), <<"2", " ", "S">>),
     Row("Movie", "PG-13", MissingCell, Date(DefaultHi), Minutes90),
     Row("Movie", "PG-13", <<"D">>, Date(DefaultHi), MissingCell)}

CountryFiles ==
    {[i \in 1..NumCountries |-> CountryRow(i, long)] \o extra :
        long \in {L \in SUBSET (1..NumCountries) : Cardinality(L) <= 2},
        extra \in {<<>>} \cup {<<e>> : e \in ExtraRows}}

\* ---------------------------------------------------------------- actions
TabPcs == {"tab1", "tab2", "tab3", "tab4", "tab5"}

InitWith(files) ==
    /\ csv \in files
    /\ df = <<>>
    /\ pc = "load"
    /\ types = {}
    /\ year_range = <<DefaultLo, DefaultHi>>
    /\ df_filtered = <<>>
    /\ pressed = "none"
    /\ ui = <<>>

Init == InitWith(TypeYearFiles)

\* Line 49: df = load_data().
LoadData ==
    /\ pc = "load"
    /\ df' = load_data(csv)
    /\ pc' = "sidebar"
    /\ UNCHANGED <<csv, types, year_range, df_filtered, pressed, ui>>

\* Lines 70-80: the two filter widgets and the filter.  int() of a NaN
\* minimum raises, and the slider raises when its default value does not
\* lie between its ends.
Sidebar ==
    /\ pc = "sidebar"
    /\ LET lo == YearMin(df)
           hi == YearMax(df)
       IN  IF lo = NaN
           THEN /\ pc' = "aborted"
                /\ ui' = ui \o <<Ev(0, "error", "int")>>
                /\ UNCHANGED <<types, year_range, df_filtered>>
           ELSE IF ~(lo <= DefaultLo /\ DefaultHi <= hi)
           THEN /\ pc' = "aborted"
                /\ ui' = ui \o <<Ev(0, "error", "slider")>>
                /\ UNCHANGED <<types, year_range, df_filtered>>
           ELSE \E ts \in SUBSET TypeOptions(df), yr \in SliderValues(lo, hi) :
                /\ types' = ts
                /\ year_range' = yr
                /\ df_filtered' = FilterFrame(df, ts, yr)
                /\ ui' = ui \o <<Ev(0, "download", Len(FilterFrame(df, ts, yr)))>>
                /\ pc' = "tab1"
    /\ UNCHANGED <<csv, df, pressed>>

\* What a tab's action leaves: the rendered events, the pressed button, the
\* next position (or the abort).
TabDone(shown, b, key, click, next) ==
    /\ ui' = ui \o shown \o b.ev
    /\ pressed' = IF click THEN key ELSE pressed
    /\ pc' = IF b.abort THEN "aborted" ELSE next
    /\ UNCHANGED <<csv, df, types, year_range, df_filtered>>

\* Lines 120-133: the Overview tab.
Tab1 ==
    /\ pc = "tab1"
    /\ \E click \in Clicks, outcome \in ApiOutcomes :
        LET counts == TypeShares(df_filtered)
            shown == <<Ev(1, "chart", Len(df_filtered))>>
                     \o (IF DOMAIN counts # {} THEN <<Ev(1, "insight", counts)>> ELSE <<>>)
        IN  TabDone(shown, GptButton(1, click, outcome), "gpt1", click, "tab2")

\* Lines 135-147: the Titles Over Time tab.
Tab2 ==
    /\ pc = "tab2"
    /\ LET notnull(r) == r.year_added # NaN
           df_yr == SelectSeq(df_filtered, notnull)
           counts == ValueCounts(df_yr, "year_added", NaN)
       IN  \E click \in Clicks, outcome \in ApiOutcomes :
           \E peak \in (IF df_yr = <<>> THEN {NaN} ELSE IdxMax(counts)) :
               LET shown == <<Ev(2, "chart", Len(df_yr))>>
                            \o (IF df_yr # <<>> THEN <<Ev(2, "insight", peak)>> ELSE <<>>)
               IN  TabDone(shown, GptButton(2, click, outcome), "gpt2", click, "tab3")

\* Lines 149-159: the Ratings tab.  idxmax of an empty value_counts raises.
Tab3 ==
    /\ pc = "tab3"
    /\ LET counts == ValueCounts(df_filtered, "rating", NA)
           chart == <<Ev(3, "chart", Len(df_filtered))>>
       IN  IF df_filtered # <<>> /\ DOMAIN counts = {}
           THEN /\ ui' = ui \o chart \o <<Ev(3, "error", "idxmax")>>
                /\ pc' = "aborted"
                /\ UNCHANGED <<csv, df, types, year_range, df_filtered, pressed>>
           ELSE \E click \in Clicks, outcome \in ApiOutcomes :
                \E top_rating \in (IF df_filtered = <<>> THEN {NA} ELSE IdxMax(counts)) :
                    LET shown == chart \o (IF df_filtered # <<>>
                                           THEN <<Ev(3, "insight", top_rating)>> ELSE <<>>)
                    IN  TabDone(shown, GptButton(3, click, outcome), "gpt3", click, "tab4")

\* Lines 182-191: the chart of df_avg, the insight of its first row and the
\* button.
ChartAndInsight(df_avg) ==
    \E click \in Clicks, outcome \in ApiOutcomes :
        TabDone(<<Ev(4, "chart", df_avg), Ev(4, "insight", df_avg[1])>>,
                GptButton(4, click, outcome), "gpt4", click, "tab5")

\* Tab4 that draws the chart of an empty group before it warns.
Tab4_ChartsThenWarns ==
    /\ pc = "tab4"
    /\ IF MovieRows(df_filtered) = <<>>
       THEN /\ ui' = ui \o <<Ev(4, "chart", <<>>), Ev(4, "warning", "No movie data")>>
            /\ pc' = "tab5"
            /\ UNCHANGED <<csv, df, types, year_range, df_filtered, pressed>>
       ELSE \E first \in BOOLEAN :
                ChartAndInsight(AverageByCountry(MovieRows(df_filtered), first))

\* Tab4 that binds its selection of movies to the name df_filtered.
Tab4_RebindsFiltered ==
    /\ pc = "tab4"
    /\ LET keep(r) == r.type = "Movie" /\ r.duration_num # NaN /\ ~IsMissing(r.country)
           df_movies == MovieRows(df_filtered)
       IN  /\ df_filtered' = SelectSeq(df_filtered, keep)
           /\ UNCHANGED <<csv, df, types, year_range>>
           /\ IF df_movies = <<>>
              THEN /\ ui' = ui \o <<Ev(4, "warning", "No movie data")>>
                   /\ pc' = "tab5"
                   /\ UNCHANGED pressed
              ELSE \E click \in Clicks, outcome \in ApiOutcomes, first \in BOOLEAN :
                       LET df_avg == AverageByCountry(df_movies, first)
                           b == GptButton(4, click, outcome)
                       IN  /\ ui' = ui \o <<Ev(4, "chart", df_avg), Ev(4, "insight", df_avg[1])>>
                                       \o b.ev
                           /\ pressed' = IF click THEN "gpt4" ELSE pressed
                           /\ pc' = IF b.abort THEN "aborted" ELSE "tab5"

\* Lines 161-191: the Durations tab.
Tab4 ==
    /\ pc = "tab4"
    /\ IF MovieRows(df_filtered) = <<>>
       THEN /\ ui' = ui \o <<Ev(4, "warning", "No movie data")>>
            /\ pc' = "tab5"
            /\ UNCHANGED <<csv, df, types, year_range, df_filtered, pressed>>
       ELSE \E first \in BOOLEAN :
                ChartAndInsight(AverageByCountry(MovieRows(df_filtered), first))

\* Lines 193-207: the Trends tab.
Tab5 ==
    /\ pc = "tab5"
    /\ \E click \in Clicks, outcome \in ApiOutcomes :
        LET df_trend == TrendGroups(df_filtered)
            years == {g[1] : g \in df_trend}
            shown == <<Ev(5, "chart", Cardinality(df_trend))>>
                     \o (IF df_trend # {}
                         THEN <<Ev(5, "insight", <<Min(years), Max(years)>>)>> ELSE <<>>)
        IN  TabDone(shown, GptButton(5, click, outcome), "gpt5", click, "footer")

\* Lines 209-211: the footer; the run is over.
Footer ==
    /\ pc = "footer"
    /\ ui' = ui \o <<Ev(6, "footer", "Built with love")>>
    /\ pc' = "done"
    /\ UNCHANGED <<csv, df, types, year_range, df_filtered, pressed>>

\* A widget interaction after a run ended (or was aborted): the script is
\* run again from the top with nothing of the last run but the data, which
\* st.cache_data keeps.
Rerun ==
    /\ pc \in {"done", "aborted"}
    /\ pc' = "load"
    /\ df' = df
    /\ types' = {}
    /\ year_range' = <<DefaultLo, DefaultHi>>
    /\ df_filtered' = <<>>
    /\ pressed' = "none"
    /\ ui' = <<>>
    /\ UNCHANGED csv

Next ==
    \/ LoadData
    \/ Sidebar
    \/ Tab1
    \/ Tab2
    \/ Tab3
    \/ Tab4
    \/ Tab5
    \/ Footer
    \/ Rerun

Spec == Init /\ [][Next]_vars

InitTypeCount == InitWith(TypeCountFiles)
SpecTypeCount == InitTypeCount /\ [][Next]_vars

InitRatings == InitWith(RatingFiles)
SpecRatings == InitRatings /\ [][Next]_vars

InitDurationText == InitWith(DurationTextFiles)
SpecDurationText == InitDurationText /\ [][Next]_vars

InitCountries == InitWith(CountryFiles)
SpecCountries == InitCountries /\ [][Next]_vars

\* ------------------------------------------------------------ the claims
\* The sidebar of this run has computed df_filtered.
Filtered == Has(ui, 0, "download")

InRange(i) ==
    /\ df[i].type \in types
    /\ df[i].year_added # NaN
    /\ year_range[1] <= df[i].year_added
    /\ df[i].year_added <= year_range[2]

\* C1: once the filter has run, df_filtered holds a record of df if and only
\* if its type is selected and its year_added lies in the year range; every
\* record of df_filtered is a record of df, held once, and none has a null
\* year_added.
C1_FilterKeepsExactly ==
    Filtered =>
        /\ \A i \in 1..Len(df) :
              (\E j \in 1..Len(df_filtered) : df_filtered[j].idx = df[i].idx) <=> InRange(i)
        /\ \A j \in 1..Len(df_filtered) :
              /\ df_filtered[j].idx \in 1..Len(df)
              /\ df_filtered[j] = df[df_filtered[j].idx]
              /\ df_filtered[j].year_added # NaN
              /\ \A k \in 1..Len(df_filtered) :
                    df_filtered[k].idx = df_filtered[j].idx => k = j

\* A run whose filter kept a record, dropped one of a selected type for its
\* null year and one of a year in the range for its type.
C1_Witness ==
    /\ Filtered
    /\ df_filtered # <<>>
    /\ \E i \in 1..Len(df) : df[i].type \in types /\ df[i].year_added = NaN
    /\ \E i \in 1..Len(df) : df[i].type \notin types /\ df[i].year_added = year_range[2]

\* C2: filtering the filtered set again by the same types and year range
\* returns the same records.
C2_FilterIdempotent ==
    Filtered => FilterFrame(df_filtered, types, year_range) = df_filtered

\* A run whose filter kept some records of the loaded set and dropped others.
C2_Witness ==
    /\ Filtered
    /\ df_filtered # <<>>
    /\ Len(df_filtered) < Len(df)


\* The cell holds a digit somewhere.
HasDigit(cell) == ~IsMissing(cell) /\ \E i \in 1..Len(cell) : cell[i] \in Digits

RECURSIVE Pow10(_)
Pow10(n) == IF n = 0 THEN 1 ELSE 10 * Pow10(n - 1)

\* The number written by the first run of digits of a cell that has one.
FirstRunValue(cell) ==
    LET p == Min({i \in 1..Len(cell) : cell[i] \in Digits})
        q == Max({j \in p..Len(cell) : \A k \in p..j : cell[k] \in Digits})
    IN  SumSeq([k \in 1..(q - p + 1) |-> DigitVal(cell[p + k - 1]) * Pow10(q - p + 1 - k)])

\* C3: in the frame load_data returns, a record's duration_num is null if
\* and only if its duration holds no digit (a missing duration holds none),
\* and otherwise it is the number written by the duration's first digit run.
C3_DurationNum ==
    pc # "load" =>
        /\ Len(df) = Len(csv)
        /\ \A i \in 1..Len(df) :
              /\ df[i].duration_num = NaN <=> ~HasDigit(csv[i].duration)
              /\ HasDigit(csv[i].duration) =>
                    df[i].duration_num = FirstRunValue(csv[i].duration)

\* A loaded record whose duration holds two digit runs after other text, and
\* one whose duration is missing or holds no digit.
C3_Witness ==
    /\ pc = "sidebar"
    /\ \E i \in 1..Len(df) :
          LET cell == csv[i].duration
          IN  /\ Len(cell) = 3 /\ cell[1] \in Digits /\ cell[2] \notin Digits
              /\ cell[3] \in Digits
              /\ df[i].duration_num = DigitVal(cell[1])


RECURSIVE SumOver(_, _)
SumOver(f, S) ==
    IF S = {} THEN 0
    ELSE LET x == CHOOSE y \in S : TRUE IN f[x] + SumOver(f, S \ {x})

Abs(n) == IF n < 0 THEN -n ELSE n

\* C4: when the Overview tab has rendered a non-empty filtered set, its type
\* distribution is shown, it names the types of the filtered set, and its
\* percentages sum to 100 within half a point per type shown.
C4_SharesSumTo100 ==
    (Has(ui, 1, "chart") /\ df_filtered # <<>>) =>
        /\ Count(ui, 1, "insight") = 1
        /\ \A i \in 1..Len(ui) :
              (ui[i].tab = 1 /\ ui[i].kind = "insight") =>
                  LET shares == ui[i].val
                  IN  /\ DOMAIN shares = {df_filtered[j].type : j \in 1..Len(df_filtered)}
                      /\ 2 * Abs(SumOver(shares, DOMAIN shares) - 100)
                            <= Cardinality(DOMAIN shares)

\* An Overview tab that shows three types whose percentages sum to 99.
C4_Witness ==
    \E i \in 1..Len(ui) :
        /\ ui[i].tab = 1 /\ ui[i].kind = "insight"
        /\ Cardinality(DOMAIN ui[i].val) = 3
        /\ SumOver(ui[i].val, DOMAIN ui[i].val) = 99


\* The run has rendered something in tab k.
Rendered(k) == \E i \in 1..Len(ui) : ui[i].tab = k

\* C5 as stated: when the filtered set is empty, every tab that is rendered
\* issues a warning, and issues it before any chart call it makes.
C5_EveryTabWarnsBeforeChart ==
    (Filtered /\ df_filtered = <<>>) =>
        \A k \in 1..5 :
            Rendered(k) =>
                /\ Has(ui, k, "warning")
                /\ \A i \in 1..Len(ui) :
                      (ui[i].tab = k /\ ui[i].kind = "chart") =>
                          \E j \in 1..(i - 1) : ui[j].tab = k /\ ui[j].kind = "warning"

\* C5 as amended: when the filtered set is empty, the Durations tab warns
\* and makes no chart call; the other four tabs make their chart call with
\* no warning and leave out their insight.
C5_OnlyDurationsTabGuards ==
    (Filtered /\ df_filtered = <<>>) =>
        /\ Rendered(4) =>
              /\ Has(ui, 4, "warning")
              /\ ~Has(ui, 4, "chart")
              /\ ~Has(ui, 4, "insight")
        /\ \A k \in {1, 2, 3, 5} :
              Rendered(k) =>
                  /\ Has(ui, k, "chart")
                  /\ ~Has(ui, k, "warning")
                  /\ ~Has(ui, k, "insight")

\* A finished run over an empty filtered set of a file that has records.
C5_Witness ==
    /\ pc = "done"
    /\ df # <<>>
    /\ df_filtered = <<>>
    /\ \A k \in 1..5 : Rendered(k)


\* C6: a pressed GPT Summary button makes one API call and an unpressed one
\* makes none; whatever the call does, gpt_summary returns a text that is
\* shown and then passed to export_pdf, and when the call raised that text
\* is the placeholder.
C6_OneCallThenSamePath ==
    \A k \in 1..5 :
        /\ Count(ui, k, "api_call") <= 1
        /\ Count(ui, k, "api_call") = 1 <=>
              \E i \in 1..Len(ui) : ui[i].tab = k /\ ui[i].kind = "button" /\ ui[i].val
        /\ \A i \in 1..Len(ui) :
              (ui[i].tab = k /\ ui[i].kind = "api_call") =>
                  /\ i + 2 <= Len(ui)
                  /\ ui[i + 1].tab = k /\ ui[i + 1].kind = "success"
                  /\ ui[i + 2].tab = k /\ ui[i + 2].kind = "export_pdf"
                  /\ ui[i + 2].val = ui[i + 1].val
                  /\ ui[i + 1].val.kind = "placeholder" <=> ui[i].val = "raise"

\* A run in which the API call of the Ratings tab raised.
C6_Witness ==
    \E i \in 1..Len(ui) : ui[i].tab = 3 /\ ui[i].kind = "api_call" /\ ui[i].val = "raise"


\* C7 as stated: no run is aborted by an unhandled error; every run goes on
\* to the footer.
C7_NoRunIsAborted == pc # "aborted"

\* The number of filtered records whose column col holds v.
Occurrences(col, v) ==
    Cardinality({j \in 1..Len(df_filtered) : df_filtered[j][col] = v})

\* The insight of tab k names a value of column col that no other value of
\* the filtered records outnumbers.
NamesAMode(k, col, null) ==
    /\ Count(ui, k, "insight") = 1
    /\ \A i \in 1..Len(ui) :
          (ui[i].tab = k /\ ui[i].kind = "insight") =>
              /\ Occurrences(col, ui[i].val) >= 1
              /\ \A j \in 1..Len(df_filtered) :
                    df_filtered[j][col] # null =>
                        Occurrences(col, ui[i].val) >= Occurrences(col, df_filtered[j][col])

\* C8 as stated: once the Titles Over Time tab (the Ratings tab) has drawn
\* a non-empty filtered set, its insight is rendered and names a year (a
\* rating) of greatest count among the filtered records.
C8_InsightsNameAMode ==
    df_filtered # <<>> =>
        /\ Has(ui, 2, "chart") => NamesAMode(2, "year_added", NaN)
        /\ Has(ui, 3, "chart") => NamesAMode(3, "rating", NA)

\* C9: once load_data has returned df, no step of any run changes it (a
\* later run's load_data returns the same frame), and from the first tab
\* to the footer no step changes df_filtered; the file is never written.
C9_DataIsReadOnly ==
    [][/\ csv' = csv
       /\ (pc # "load" \/ df # <<>>) => df' = df
       /\ pc \in TabPcs \cup {"footer"} => df_filtered' = df_filtered]_vars

\* A finished run, after the GPT Summary button of the Durations tab was
\* pressed, whose Titles Over Time and Durations tabs worked on copies of a
\* filtered set that holds more than its movies.
C9_Witness ==
    /\ pc = "done"
    /\ pressed = "gpt4"
    /\ Has(ui, 2, "insight")
    /\ Has(ui, 4, "chart")
    /\ \E j \in 1..Len(df_filtered) : df_filtered[j].type # "Movie"


\* For every filtered record: whether it is a movie with a duration_num and
\* a country, and then its main country (the first comma-separated element
\* of its country, trimmed) and its duration_num.
MovieGroup ==
    Frame([j \in 1..Len(df_filtered) |->
        LET r == df_filtered[j]
            in == r.type = "Movie" /\ r.duration_num # NaN /\ ~IsMissing(r.country)
        IN  [in |-> in,
             main |-> IF in THEN Strip(FirstField(r.country)) ELSE <<>>,
             dur |-> r.duration_num]])

\* The records of the group g with their main country's total and count.
GroupTotals(g) ==
    Frame([j \in 1..Len(g) |->
        [in |-> g[j].in, main |-> g[j].main,
         total |-> SumSeq([k \in 1..Len(g) |->
                      IF g[k].in /\ g[k].main = g[j].main THEN g[k].dur ELSE 0]),
         n |-> Cardinality({k \in 1..Len(g) : g[k].in /\ g[k].main = g[j].main})]])

MainCountries(g) == {g[j].main : j \in {k \in 1..Len(g) : g[k].in}}

\* Row r of df_avg holds a main country of the group with its average.
IsAverageRow(r, g) ==
    \E j \in 1..Len(g) :
        g[j].in /\ g[j].main = r.main_country /\ g[j].total = r.total /\ g[j].n = r.n

ChartIsTopTen(c, g) ==
    /\ Len(c) <= 10
    /\ Len(c) = IF Cardinality(MainCountries(g)) < 10
                THEN Cardinality(MainCountries(g)) ELSE 10
    /\ \A a \in 1..Len(c) : IsAverageRow(c[a], g)
    /\ \A a, b \in 1..Len(c) :
          a < b => /\ c[a].main_country # c[b].main_country
                   /\ c[a].total * c[b].n >= c[b].total * c[a].n

InsightIsLongest(r, g) ==
    /\ IsAverageRow(r, g)
    /\ \A j \in 1..Len(g) : g[j].in => r.total * g[j].n >= g[j].total * r.n

DurationsTabShows(g) ==
    IF MainCountries(g) = {}
    THEN /\ Has(ui, 4, "warning")
         /\ ~Has(ui, 4, "chart") /\ ~Has(ui, 4, "insight") /\ ~Has(ui, 4, "button")
    ELSE /\ ~Has(ui, 4, "warning")
         /\ Count(ui, 4, "chart") = 1 /\ Count(ui, 4, "insight") = 1
         /\ Count(ui, 4, "button") = 1
         /\ \A i \in 1..Len(ui) :
               /\ (ui[i].tab = 4 /\ ui[i].kind = "chart") => ChartIsTopTen(ui[i].val, g)
               /\ (ui[i].tab = 4 /\ ui[i].kind = "insight") => InsightIsLongest(ui[i].val, g)

\* C10: once the Durations tab is rendered: over an empty movie group it
\* shows a warning and no chart, insight or button; otherwise its chart
\* holds at most ten distinct main countries with their averages in
\* non-increasing order, and its insight names a main country whose average
\* is at least that of every main country of the group.
C10_LongestAverage == Rendered(4) => DurationsTabShows(GroupTotals(MovieGroup))

\* A Durations tab over more than ten main countries, one of them with two
\* movies, that charts ten of them.
C10_Witness ==
    /\ pc = "tab5"
    /\ Cardinality(MainCountries(MovieGroup)) > 10
    /\ \E j \in 1..Len(df_filtered) : GroupTotals(MovieGroup)[j].n = 2
    /\ \E i \in 1..Len(ui) : ui[i].tab = 4 /\ ui[i].kind = "chart" /\ Len(ui[i].val) = 10

=============================================================================
